---------------------------- MODULE Spec2Model ----------------------------
(***************************************************************************)
(* A model of FastIncommSum (src/src/fastincommsum.c): the helix           *)
(* decomposition, the OpenMP lattice reduction with its three named        *)
(* critical sections, and the two angle-sweep sections.                    *)
(*                                                                         *)
(* Numbers.  A C double is modelled by an extended rational <<n, d>> in    *)
(* lowest terms with d >= 0.  d = 0 encodes the IEEE non-finite values:    *)
(* <<1,0>> is +inf, <<-1,0>> is -inf and <<0,0>> is NaN, so that 1/0,      *)
(* inf*0 and comparisons with NaN behave as they do in the build.          *)
(* Rounding is not modelled (finite arithmetic is exact) and the sign of   *)
(* a zero is not kept.                                                     *)
(***************************************************************************)
EXTENDS Integers, Sequences, FiniteSets, TLC

\* ------------------------------------------------------------------------
\* Extended rational arithmetic (the double type)
\* ------------------------------------------------------------------------

RECURSIVE Gcd(_, _)
Gcd(a, b) == IF b = 0 THEN a ELSE Gcd(b, a % b)

IAbs(i) == IF i < 0 THEN -i ELSE i

ISign(i) == IF i < 0 THEN -1 ELSE IF i = 0 THEN 0 ELSE 1

\* n/d brought to the canonical form; d may be negative or zero on entry
Q(n, d) ==
    IF d = 0 THEN <<ISign(n), 0>>
    ELSE LET g == Gcd(IAbs(n), IAbs(d))
         IN  <<(ISign(d) * n) \div g, IAbs(d) \div g>>

RInt(i) == <<i, 1>>

RZero == <<0, 1>>

ROne == <<1, 1>>

RNaN == <<0, 0>>

RInf == <<1, 0>>

IsNaN(x) == x[1] = 0 /\ x[2] = 0

IsFinite(x) == x[2] > 0

RNeg(x) == <<-x[1], x[2]>>

RAbs(x) == <<IAbs(x[1]), x[2]>>

RAdd(x, y) ==
    IF IsNaN(x) \/ IsNaN(y) THEN RNaN
    ELSE IF x[2] = 0 /\ y[2] = 0 THEN (IF x[1] = y[1] THEN x ELSE RNaN)
    ELSE IF x[2] = 0 THEN x
    ELSE IF y[2] = 0 THEN y
    ELSE LET g == Gcd(x[2], y[2])
         IN  Q(x[1] * (y[2] \div g) + y[1] * (x[2] \div g), (x[2] \div g) * y[2])

RSub(x, y) == RAdd(x, RNeg(y))

\* the product; inf * 0 and NaN * x are NaN
RMul(x, y) ==
    IF x[2] = 0 \/ y[2] = 0 THEN <<ISign(x[1]) * ISign(y[1]), 0>>
    ELSE LET g == Gcd(IAbs(x[1]), y[2])
             h == Gcd(IAbs(y[1]), x[2])
         IN  Q((x[1] \div g) * (y[1] \div h), (x[2] \div h) * (y[2] \div g))

\* 1.0/x: 1/0 is +inf and 1/inf is 0
RInv(x) ==
    IF x[1] = 0 THEN (IF x[2] = 0 THEN RNaN ELSE RInf)
    ELSE <<ISign(x[1]) * x[2], IAbs(x[1])>>

RDiv(x, y) == RMul(x, RInv(y))

\* x < y as C compares doubles: false when either side is NaN
RLess(x, y) ==
    IF IsNaN(x) \/ IsNaN(y) THEN FALSE
    ELSE IF x[2] = 0 /\ y[2] = 0 THEN x[1] < y[1]
    ELSE x[1] * y[2] < y[1] * x[2]

\* x >= y as C compares doubles
RGeq(x, y) == ~IsNaN(x) /\ ~IsNaN(y) /\ ~RLess(x, y)

\* x > y as C compares doubles
RGreater(x, y) == RLess(y, x)

RECURSIVE ISqrtBetween(_, _, _)
ISqrtBetween(m, lo, hi) ==
    IF lo >= hi THEN lo
    ELSE LET mid == (lo + hi + 1) \div 2
         IN  IF mid * mid <= m THEN ISqrtBetween(m, mid, hi)
             ELSE ISqrtBetween(m, lo, mid - 1)

\* floor of the square root of a natural number
ISqrt(m) == ISqrtBetween(m, 0, IF m < 46340 THEN m ELSE 46340)

IsSquare(m) == ISqrt(m) * ISqrt(m) = m

\* sqrt(x): exact when x is the square of a rational, else truncated to 1/100
RSqrt(x) ==
    IF IsNaN(x) \/ x[1] < 0 THEN RNaN
    ELSE IF x[2] = 0 THEN RInf
    ELSE IF IsSquare(x[1]) /\ IsSquare(x[2]) THEN <<ISqrt(x[1]), ISqrt(x[2])>>
    ELSE Q(ISqrt((x[1] * 10000) \div x[2]), 100)

\* floor of a finite rational
RFloor(x) == IF x[1] >= 0 THEN x[1] \div x[2]
             ELSE -((-x[1] + x[2] - 1) \div x[2])

\* The quarter of the turn that t turns (t counted in whole turns) falls in.
\* cos and sin are tabulated at the quarter turns, where they are rational;
\* an argument between two quarter turns is taken at the one below it.
Quarter(t) == RFloor(RMul(RInt(4), t)) % 4

\* cos(2*M_PI*t)
CosTurns(t) ==
    IF ~IsFinite(t) THEN RNaN
    ELSE CASE Quarter(t) = 0 -> ROne
           [] Quarter(t) = 1 -> RZero
           [] Quarter(t) = 2 -> RInt(-1)
           [] OTHER          -> RZero

\* sin(2*M_PI*t)
SinTurns(t) ==
    IF ~IsFinite(t) THEN RNaN
    ELSE CASE Quarter(t) = 0 -> RZero
           [] Quarter(t) = 1 -> ROne
           [] Quarter(t) = 2 -> RZero
           [] OTHER          -> RInt(-1)

\* ------------------------------------------------------------------------
\* The 3-vector and 3x3-matrix library (mat3.h); a vector is <<x, y, z>>,
\* a matrix is <<a, b, c>>, its three row vectors
\* ------------------------------------------------------------------------

vec3_zero == <<RZero, RZero, RZero>>

vec3_add(v, w) == <<RAdd(v[1], w[1]), RAdd(v[2], w[2]), RAdd(v[3], w[3])>>

vec3_sub(v, w) == <<RSub(v[1], w[1]), RSub(v[2], w[2]), RSub(v[3], w[3])>>

vec3_muls(s, v) == <<RMul(s, v[1]), RMul(s, v[2]), RMul(s, v[3])>>

vec3_dot(v, w) ==
    RAdd(RAdd(RMul(v[1], w[1]), RMul(v[2], w[2])), RMul(v[3], w[3]))

vec3_norm(v) == RSqrt(vec3_dot(v, v))

\* the row vector v times the matrix m
mat3_vmul(v, m) ==
    vec3_add(vec3_add(vec3_muls(v[1], m[1]), vec3_muls(v[2], m[2])),
             vec3_muls(v[3], m[3]))

mat3_diag(x, y, z) ==
    << <<x, RZero, RZero>>, <<RZero, y, RZero>>, <<RZero, RZero, z>> >>

mat3_mul(m, p) == <<mat3_vmul(m[1], p), mat3_vmul(m[2], p), mat3_vmul(m[3], p)>>

mat3_det(m) ==
    RAdd(RSub(RMul(m[1][1], RSub(RMul(m[2][2], m[3][3]), RMul(m[2][3], m[3][2]))),
              RMul(m[1][2], RSub(RMul(m[2][1], m[3][3]), RMul(m[2][3], m[3][1])))),
         RMul(m[1][3], RSub(RMul(m[2][1], m[3][2]), RMul(m[2][2], m[3][1]))))

\* the cofactor of m at row i, column j (indices counted cyclically)
mat3_cof(m, i, j) ==
    LET i1 == (i % 3) + 1
        i2 == ((i + 1) % 3) + 1
        j1 == (j % 3) + 1
        j2 == ((j + 1) % 3) + 1
    IN  RSub(RMul(m[i1][j1], m[i2][j2]), RMul(m[i1][j2], m[i2][j1]))

\* the inverse: the transposed cofactors over the determinant
mat3_inv(m) ==
    LET id == RInv(mat3_det(m))
    IN  [i \in 1..3 |-> [j \in 1..3 |-> RMul(id, mat3_cof(m, j, i))]]


\* ------------------------------------------------------------------------
\* Constants of the program
\* ------------------------------------------------------------------------

\* the tolerance of the consistency checks (config.h)
EPS == Q(1, 1000)

\* the power of the distance that ranks a contact candidate (config.h)
CONT_SCALING_POWER == 3

\* The physical constants keep three significant digits, so that products stay
\* within the integers TLC computes with.
\* 0.9274009, "to tesla units"
DipConstant == Q(927, 1000)

\* 0.33333333333*11.654064
LorConstant == Q(388, 100)

\* 7.769376
ContConstant == Q(777, 100)

\* 4.*M_PI
FourPi == Q(88, 7)

RECURSIVE RPow(_, _)
\* pow(x, k) for a natural exponent
RPow(x, k) == IF k = 0 THEN ROne ELSE RMul(x, RPow(x, k - 1))

\* ------------------------------------------------------------------------
\* Bounds of the model
\* ------------------------------------------------------------------------

\* the threads of the OpenMP team
NumThreads == 2

\* the largest number of nearest neighbours kept for the contact field
MaxK == 2

\* a pile driven alone: the most insert calls, and the largest rank
MaxInserts == 3

MaxRank == 1

\* a C array indexed from 0, from the sequence of its values
Arr(seq) == [x \in 0..(Len(seq) - 1) |-> seq[x + 1]]

\* ------------------------------------------------------------------------
\* The bounded nearest-set selector (pile.h).  A pile holds nElements
\* entries in ascending rank, ranks[x] and elements[x] for x from 0; an
\* entry that was never filled holds the sentinel rank -1.  srcs[x] names
\* the (i,j,k,a) tuple the entry was computed from; the program does not
\* hold it.
\* ------------------------------------------------------------------------

PileSentinel == RInt(-1)

NoSrc == <<>>

pile_init(nElements) ==
    [nElements |-> nElements,
     ranks     |-> [x \in 0..(nElements - 1) |-> PileSentinel],
     elements  |-> [x \in 0..(nElements - 1) |-> vec3_zero],
     srcs      |-> [x \in 0..(nElements - 1) |-> NoSrc]]

\* the first position whose entry is absent or ranks above rank;
\* nElements when there is none
PilePosition(p, rank) ==
    LET hits == {x \in 0..(p.nElements - 1) :
                    RLess(p.ranks[x], RZero) \/ RLess(rank, p.ranks[x])}
    IN  IF hits = {} THEN p.nElements
        ELSE CHOOSE x \in hits : \A y \in hits : x <= y

\* insert at the position found, moving the later entries down by one and
\* dropping the last; an entry that ranks after every retained one of a
\* full pile is discarded (of equal ranks the first seen stays ahead)
pile_add_element(p, rank, v, src) ==
    LET pos == PilePosition(p, rank)
        Put(old, new) == [x \in 0..(p.nElements - 1) |->
                             IF x < pos THEN old[x]
                             ELSE IF x = pos THEN new ELSE old[x - 1]]
    IN  [nElements |-> p.nElements,
         ranks     |-> Put(p.ranks, rank),
         elements  |-> Put(p.elements, v),
         srcs      |-> Put(p.srcs, src)]

\* ------------------------------------------------------------------------
\* State
\* ------------------------------------------------------------------------

VARIABLES
    \* the arguments of FastIncommSum
    in_positions, in_fc, in_K, in_phi, in_muonpos, in_supercell, in_cell,
    radius, nnn_for_cont, cont_radius, in_natoms, in_nangles,
    \* the caller's output arrays, one vector (three doubles) per angle
    out_field_cont, out_field_dip, out_field_lor,
    \* locals set once before the loops
    sc_lat, inv_sc_lat, muonpos,
    \* per-atom arrays
    stagmom, refatmpos, Ahelix, Bhelix, SDip, CDip, SLor, CLor,
    \* the two piles
    CCont, SCont,
    \* phi is not in the private list of the omp for: one variable for the team
    phi,
    \* the main thread: its position and the atom counter of its loops
    pc, a_main,
    \* the lattice reduction: the (i,j,k) iterations not yet handed out, each
    \* thread's position and private variables, the owner of each named
    \* critical section (0: nobody)
    todo, thr, lock,
    \* the two sections of the angle sweep, with their private variables
    sec1, sec2,
    \* what was printed
    diag,
    \* history: who wrote phi last, and the tuples offered to the piles
    phiSrc, offered,
    \* the insert calls still to come when a pile is driven alone (SpecPile);
    \* FastIncommSum has none
    calls

\* what no step of FastIncommSum changes
inputs == <<in_positions, in_fc, in_K, in_phi, in_muonpos, in_supercell,
            in_cell, radius, nnn_for_cont, cont_radius, in_natoms, in_nangles,
            calls>>

setup == <<sc_lat, inv_sc_lat, muonpos>>

helix == <<stagmom, refatmpos, Ahelix, Bhelix>>

accumulators == <<SDip, CDip, SLor, CLor>>

piles == <<CCont, SCont>>

outputs == <<out_field_cont, out_field_dip, out_field_lor>>

vars == <<inputs, outputs, setup, helix, accumulators, piles, phi, pc, a_main,
          todo, thr, lock, sec1, sec2, diag, phiSrc, offered>>

\* a value that was never assigned
Undef == <<>>

NoCalls == [c |-> {}, s |-> {}, all |-> {}]

Threads == 1..NumThreads

Atoms == 0..(in_natoms - 1)

Sections == {"dipolar", "lorentz", "contact"}

\* ------------------------------------------------------------------------
\* Lines 130-209: the supercell, the lattice and the muon
\* ------------------------------------------------------------------------

scx == in_supercell[0]

scy == in_supercell[1]

scz == in_supercell[2]

K == <<in_K[0], in_K[1], in_K[2]>>

\* lines 139-147
CellMatrix(cell) ==
    << <<cell[0], cell[1], cell[2]>>, <<cell[3], cell[4], cell[5]>>,
       <<cell[6], cell[7], cell[8]>> >>

\* lines 193-195
ScaledLattice(cell, sc) ==
    mat3_mul(mat3_diag(RInt(sc[0]), RInt(sc[1]), RInt(sc[2])), CellMatrix(cell))

\* lines 199-201 and 221-223: a fractional position moved to the middle cell
\* of the supercell, in reduced coordinates of the supercell
Centered(pos, sc) ==
    <<RDiv(RAdd(pos[1], RInt(sc[0] \div 2)), RInt(sc[0])),
      RDiv(RAdd(pos[2], RInt(sc[1] \div 2)), RInt(sc[1])),
      RDiv(RAdd(pos[3], RInt(sc[2] \div 2)), RInt(sc[2]))>>

\* lines 199-209
MuonCart(mu, cell, sc) ==
    mat3_vmul(Centered(<<mu[0], mu[1], mu[2]>>, sc), ScaledLattice(cell, sc))

Position(x) == <<in_positions[3 * x], in_positions[3 * x + 1], in_positions[3 * x + 2]>>

\* ------------------------------------------------------------------------
\* Inputs the model draws from
\* ------------------------------------------------------------------------

V3(x, y, z) == <<RInt(x), RInt(y), RInt(z)>>

\* an atom: fractional position, Re(FC), Im(FC), phase
Atom(pos, re, im, ph) == [pos |-> pos, re |-> re, im |-> im, phi |-> ph]

\* orthonormal helix at the origin
AtomX == Atom(V3(0, 0, 0), V3(1, 0, 0), V3(0, 1, 0), RZero)

\* Re = Im, so that A.B = 1 while |Re| = |Im|; a quarter turn of phase
AtomY == Atom(<<Q(-1, 2), RZero, RZero>>, V3(1, 0, 0), V3(1, 0, 0), Q(1, 4))

\* one cell further along the first lattice vector, half a turn of phase;
\* |Re| = 2 and |Im| = 1, orthogonal
AtomT == Atom(V3(1, 0, 0), V3(0, 0, 2), V3(1, 0, 0), Q(1, 2))

AtomLists == {<<AtomX>>, <<AtomT>>, <<AtomX, AtomY>>}

\* the supercell extension along the first lattice vector: none (a
\* precondition broken), the cell itself, two cells
SupercellChoices == {0, 1, 2}

MuonChoices == {V3(0, 0, 0), <<Q(1, 2), RZero, RZero>>}

RadiusChoices == {RZero, Q(1, 2), RInt(2)}

ContRadiusChoices == {ROne}

AngleChoices == {4}

UnitCell == <<ROne, RZero, RZero, RZero, ROne, RZero, RZero, RZero, ROne>>

\* the flat arrays the caller passes: three doubles per atom
PositionsOf(atoms) ==
    [x \in 0..(3 * Len(atoms) - 1) |-> atoms[(x \div 3) + 1].pos[(x % 3) + 1]]

\* Re(FC_x) Im(FC_x) Re(FC_y) Im(FC_y) Re(FC_z) Im(FC_z) per atom
FcOf(atoms) ==
    [x \in 0..(6 * Len(atoms) - 1) |->
        IF x % 2 = 0 THEN atoms[(x \div 6) + 1].re[((x % 6) \div 2) + 1]
        ELSE atoms[(x \div 6) + 1].im[((x % 6) \div 2) + 1]]

PhiOf(atoms) == [x \in 0..(Len(atoms) - 1) |-> atoms[x + 1].phi]

\* ------------------------------------------------------------------------
\* Lines 113-127: the state when the helix loop starts
\* ------------------------------------------------------------------------

ZeroVectors(n) == [x \in 0..(n - 1) |-> vec3_zero]

Unassigned(n) == [x \in 0..(n - 1) |-> Undef]

IdleThread == [pc |-> "for", i |-> 0, j |-> 0, k |-> 0, a |-> 0,
               n |-> Undef, u |-> Undef, onebrcube |-> Undef, crysvec |-> Undef,
               c |-> Undef, s |-> Undef, cSrc |-> Undef, sSrc |-> Undef]

IdleSec1 == [pc |-> "idle", angn |-> 0]

IdleSec2 == [pc |-> "idle", i |-> 0, angn |-> 0, CBCont |-> vec3_zero,
             SBCont |-> vec3_zero, NofM |-> 0, SumOfWeights |-> RZero,
             BCont |-> Undef]

\* a pile with room for one entry more than asked
RoomierPile(n) == pile_init(n + 1)

\* lines 116-117
InitPile(n) == pile_init(n)

InitWith(atoms, sc, mu, rad, crad, nnn, nang) ==
    /\ in_positions = PositionsOf(atoms)
    /\ in_fc = FcOf(atoms)
    /\ in_phi = PhiOf(atoms)
    /\ in_K = Arr(<<Q(1, 2), RZero, RZero>>)
    /\ in_muonpos = Arr(mu)
    /\ in_supercell = Arr(<<sc, 1, 1>>)
    /\ in_cell = Arr(UnitCell)
    /\ radius = rad
    /\ nnn_for_cont = nnn
    /\ cont_radius = crad
    /\ in_natoms = Len(atoms)
    /\ in_nangles = nang
    /\ out_field_cont = Unassigned(nang)
    /\ out_field_dip = Unassigned(nang)
    /\ out_field_lor = Unassigned(nang)
    /\ sc_lat = ScaledLattice(Arr(UnitCell), Arr(<<sc, 1, 1>>))
    /\ inv_sc_lat = mat3_inv(CellMatrix(Arr(UnitCell)))
    /\ muonpos = MuonCart(Arr(mu), Arr(UnitCell), Arr(<<sc, 1, 1>>))
    /\ stagmom = Unassigned(Len(atoms))
    /\ refatmpos = Unassigned(Len(atoms))
    /\ Ahelix = ZeroVectors(Len(atoms))
    /\ Bhelix = ZeroVectors(Len(atoms))
    /\ CDip = ZeroVectors(Len(atoms))
    /\ SDip = ZeroVectors(Len(atoms))
    /\ CLor = ZeroVectors(Len(atoms))
    /\ SLor = ZeroVectors(Len(atoms))
    /\ CCont = InitPile(nnn)
    /\ SCont = InitPile(nnn)
    /\ phi = Undef
    /\ pc = "helix"
    /\ a_main = 0
    /\ todo = {}
    /\ thr = [w \in Threads |-> IdleThread]
    /\ lock = [x \in Sections |-> 0]
    /\ sec1 = IdleSec1
    /\ sec2 = IdleSec2
    /\ diag = <<>>
    /\ phiSrc = Undef
    /\ offered = {}

Init ==
    \E atoms \in AtomLists, sc \in SupercellChoices, mu \in MuonChoices,
       rad \in RadiusChoices, crad \in ContRadiusChoices,
       nnn \in 1..MaxK, nang \in AngleChoices :
        /\ InitWith(atoms, sc, mu, rad, crad, nnn, nang)
        /\ calls = NoCalls

\* ------------------------------------------------------------------------
\* Lines 217-288: the helix decomposition, one atom per step
\* ------------------------------------------------------------------------

ReFC(x) == <<in_fc[6 * x], in_fc[6 * x + 2], in_fc[6 * x + 4]>>

ImFC(x) == <<in_fc[6 * x + 1], in_fc[6 * x + 3], in_fc[6 * x + 5]>>

\* lines 221-230
RefAtmPos(x) == mat3_vmul(Centered(Position(x), in_supercell), sc_lat)

\* line 250
StagMom(x) == vec3_norm(ReFC(x))

\* line 251
AhelixOf(x) == vec3_muls(RInv(StagMom(x)), ReFC(x))

\* line 270
BhelixOf(x) == vec3_muls(RInv(vec3_norm(ImFC(x))), ImFC(x))

\* line 266
StaggeredDiffers(x) ==
    RGreater(RAbs(RSub(StagMom(x), vec3_norm(ImFC(x)))), EPS)

\* line 272
NotOrthogonal(x) == RGreater(RAbs(vec3_dot(AhelixOf(x), BhelixOf(x))), EPS)

\* line 283
PhiNotZero(x) == RGreater(RAbs(in_phi[x]), EPS)

\* line 268: the message names the atom
StaggeredMessage(x) == [kind |-> "staggered", atom |-> x]

\* line 274: the message names the atom and the scalar product
OrthogonalMessage(x) ==
    [kind |-> "orthogonal", atom |-> x, by |-> vec3_dot(AhelixOf(x), BhelixOf(x))]

\* line 285: the message names nothing
PhiMessage(x) == [kind |-> "phi"]

\* what lines 266-286 print for atom x, in order
HelixMessages(x) ==
    (IF StaggeredDiffers(x) THEN <<StaggeredMessage(x)>> ELSE <<>>)
    \o (IF NotOrthogonal(x) THEN <<OrthogonalMessage(x)>> ELSE <<>>)
    \o (IF PhiNotZero(x) THEN <<PhiMessage(x)>> ELSE <<>>)

HelixStep ==
    /\ pc = "helix"
    /\ a_main < in_natoms
    /\ refatmpos' = [refatmpos EXCEPT ![a_main] = RefAtmPos(a_main)]
    /\ stagmom' = [stagmom EXCEPT ![a_main] = StagMom(a_main)]
    /\ Ahelix' = [Ahelix EXCEPT ![a_main] = AhelixOf(a_main)]
    /\ Bhelix' = [Bhelix EXCEPT ![a_main] = BhelixOf(a_main)]
    /\ diag' = diag \o HelixMessages(a_main)
    /\ a_main' = a_main + 1
    /\ UNCHANGED <<inputs, outputs, setup, accumulators, piles, phi, pc, todo,
                   thr, lock, sec1, sec2, phiSrc, offered>>

\* ------------------------------------------------------------------------
\* Lines 293-434: the lattice reduction.  Each thread of the team takes
\* (i,j,k) iterations of the collapsed loop in any order and runs the atom
\* loop of each; i, j, k, a, r, n, c, s, u, crysvec, onebrcube and atmpos
\* are private, one copy per thread in thr.
\* ------------------------------------------------------------------------

\* line 303's loop body is entered once per tuple
Iterations ==
    {<<i, j, k>> : i \in 0..(scx - 1), j \in 0..(scy - 1), k \in 0..(scz - 1)}

Tuples == {<<it[1], it[2], it[3], x>> : it \in Iterations, x \in Atoms}

\* lines 307-314
AtmPos(t) ==
    mat3_vmul(<<RDiv(RAdd(in_positions[3 * t[4]], RInt(t[1])), RInt(scx)),
                RDiv(RAdd(in_positions[3 * t[4] + 1], RInt(t[2])), RInt(scy)),
                RDiv(RAdd(in_positions[3 * t[4] + 2], RInt(t[3])), RInt(scz))>>,
              sc_lat)

\* line 319
RVec(t) == vec3_sub(AtmPos(t), muonpos)

\* line 321
Dist(t) == vec3_norm(RVec(t))

\* line 328
UnitVec(t) == vec3_muls(RInv(Dist(t)), RVec(t))

\* line 329
OneByRCube(t) == RInv(RPow(Dist(t), 3))

\* line 333
CrysVec(t) ==
    mat3_vmul(vec3_sub(vec3_sub(AtmPos(t), muonpos), refatmpos[t[4]]), inv_sc_lat)

\* lines 335-336: the argument of cos and sin in turns, with the phase ph
Phase(crysvec, ph) == RAdd(vec3_dot(K, crysvec), ph)

\* 3(X.u)u - X
Tensor(X, u) == vec3_sub(vec3_muls(RMul(RInt(3), vec3_dot(X, u)), u), X)

\* lines 375-378, for atom x
CDipTerm(x, c, s, u, onebrcube) ==
    vec3_add(vec3_muls(RMul(c, onebrcube), Tensor(Ahelix[x], u)),
             vec3_muls(RMul(s, onebrcube), Tensor(Bhelix[x], u)))

\* lines 383-386
SDipTerm(x, c, s, u, onebrcube) ==
    vec3_sub(vec3_muls(RMul(s, onebrcube), Tensor(Ahelix[x], u)),
             vec3_muls(RMul(c, onebrcube), Tensor(Bhelix[x], u)))

\* lines 394-397
CLorTerm(x, c, s) == vec3_add(vec3_muls(c, Ahelix[x]), vec3_muls(s, Bhelix[x]))

\* lines 401-404
SLorTerm(x, c, s) == vec3_sub(vec3_muls(s, Ahelix[x]), vec3_muls(c, Bhelix[x]))

\* lines 412-415
CContTerm(x, c, s) ==
    vec3_add(vec3_muls(RMul(stagmom[x], c), Ahelix[x]),
             vec3_muls(RMul(stagmom[x], s), Bhelix[x]))

\* lines 418-421
SContTerm(x, c, s) ==
    vec3_sub(vec3_muls(RMul(stagmom[x], s), Ahelix[x]),
             vec3_muls(RMul(stagmom[x], c), Bhelix[x]))

\* lines 411 and 417
ContRank(n) == RPow(n, CONT_SCALING_POWER)

\* line 322
InsideSphere(n) == RLess(n, radius)

\* a contact test that everything passes
AnyDistance(n) == TRUE

\* line 408
InsideContact(n) == RLess(n, cont_radius)

TupleOf(w) == <<thr[w].i, thr[w].j, thr[w].k, thr[w].a>>

\* a critical section that excludes nobody
NeverHeld(name) == TRUE

\* #pragma omp critical(name): nobody is inside a section of that name
CriticalFree(name) == lock[name] = 0

\* the private values of a tuple that is over are dead and are not kept
Forget(t) == [t EXCEPT !.n = Undef, !.u = Undef, !.onebrcube = Undef,
                       !.crysvec = Undef, !.c = Undef, !.s = Undef,
                       !.cSrc = Undef, !.sSrc = Undef]

\* lines 296-303: the tuple of thread w is over.  The atom loop goes on; at
\* its end the thread is handed another iteration of the collapsed loop, any
\* that is left, or waits at the end of the loop when none is.
Leave(w) ==
    IF thr[w].a + 1 < in_natoms
    THEN /\ thr' = [thr EXCEPT ![w] = [Forget(@) EXCEPT !.pc = "tuple", !.a = @ + 1]]
         /\ todo' = todo
    ELSE IF todo = {}
    THEN /\ thr' = [thr EXCEPT ![w] = [Forget(@) EXCEPT !.pc = "wait"]]
         /\ todo' = todo
    ELSE \E it \in todo :
         /\ thr' = [thr EXCEPT ![w] = [Forget(@) EXCEPT !.pc = "tuple", !.i = it[1],
                                               !.j = it[2], !.k = it[3], !.a = 0]]
         /\ todo' = todo \ {it}

\* line 293: the team starts
ParallelBegin ==
    /\ pc = "helix"
    /\ a_main = in_natoms
    /\ pc' = "reduce"
    /\ todo' = Iterations
    /\ UNCHANGED <<inputs, outputs, setup, helix, accumulators, piles, phi,
                   a_main, thr, lock, sec1, sec2, diag, phiSrc, offered>>

\* lines 295-303: a thread is handed its first iteration of the collapsed
\* loop, or none
ForFirst(w) ==
    /\ pc = "reduce"
    /\ thr[w].pc = "for"
    /\ IF todo = {}
       THEN /\ thr' = [thr EXCEPT ![w] = [@ EXCEPT !.pc = "wait"]]
            /\ todo' = todo
       ELSE \E it \in todo :
            /\ todo' = todo \ {it}
            /\ thr' = [thr EXCEPT ![w] = [@ EXCEPT !.pc = "tuple", !.i = it[1],
                                                    !.j = it[2], !.k = it[3], !.a = 0]]
    /\ UNCHANGED <<inputs, outputs, setup, helix, accumulators, piles, phi, pc,
                   a_main, lock, sec1, sec2, diag, phiSrc, offered>>

\* lines 307-333: the distance and the cutoff test; inside the sphere the
\* store to phi, and u, onebrcube and crysvec
Cutoff(w) ==
    /\ thr[w].pc = "tuple"
    /\ IF InsideSphere(Dist(TupleOf(w)))
       THEN /\ phi' = in_phi[thr[w].a]
            /\ phiSrc' = TupleOf(w)
            /\ thr' = [thr EXCEPT ![w] = [@ EXCEPT
                          !.pc = "cos",
                          !.n = Dist(TupleOf(w)),
                          !.u = UnitVec(TupleOf(w)),
                          !.onebrcube = OneByRCube(TupleOf(w)),
                          !.crysvec = CrysVec(TupleOf(w))]]
            /\ todo' = todo
       ELSE /\ Leave(w)
            /\ UNCHANGED <<phi, phiSrc>>
    /\ UNCHANGED <<inputs, outputs, setup, helix, accumulators, piles, pc,
                   a_main, lock, sec1, sec2, diag, offered>>

\* line 335: c, from phi as it is now
Cosine(w) ==
    /\ thr[w].pc = "cos"
    /\ thr' = [thr EXCEPT ![w] = [@ EXCEPT !.pc = "sin",
                                          !.c = CosTurns(Phase(thr[w].crysvec, phi)),
                                          !.cSrc = phiSrc]]
    /\ UNCHANGED <<inputs, outputs, setup, helix, accumulators, piles, phi, pc,
                   a_main, todo, lock, sec1, sec2, diag, phiSrc, offered>>

\* line 336: s, from phi as it is now
Sine(w) ==
    /\ thr[w].pc = "sin"
    /\ thr' = [thr EXCEPT ![w] = [@ EXCEPT !.pc = "dip",
                                          !.s = SinTurns(Phase(thr[w].crysvec, phi)),
                                          !.sSrc = phiSrc]]
    /\ UNCHANGED <<inputs, outputs, setup, helix, accumulators, piles, phi, pc,
                   a_main, todo, lock, sec1, sec2, diag, phiSrc, offered>>

\* lines 370-388: critical(dipolar), which adds to CDip[a] and to SDip[a].
\* Every access to the two arrays during the reduction is inside this
\* section, so no thread can see the state between its two statements: the
\* section is entered, run and left in one step.
Dipolar(w) ==
    /\ thr[w].pc = "dip"
    /\ CriticalFree("dipolar")
    /\ CDip' = [CDip EXCEPT ![thr[w].a] =
                   vec3_add(@, CDipTerm(thr[w].a, thr[w].c, thr[w].s,
                                        thr[w].u, thr[w].onebrcube))]
    /\ SDip' = [SDip EXCEPT ![thr[w].a] =
                   vec3_add(@, SDipTerm(thr[w].a, thr[w].c, thr[w].s,
                                        thr[w].u, thr[w].onebrcube))]
    /\ thr' = [thr EXCEPT ![w] = [@ EXCEPT !.pc = "lor"]]
    /\ UNCHANGED <<inputs, outputs, setup, helix, SLor, CLor, piles, phi, pc,
                   a_main, todo, lock, sec1, sec2, diag, phiSrc, offered>>

\* lines 389-408: critical(lorentz), which adds to CLor[a] and to SLor[a], in
\* one step as critical(dipolar); then the test of cont_radius
Lorentz(w) ==
    /\ thr[w].pc = "lor"
    /\ CriticalFree("lorentz")
    /\ CLor' = [CLor EXCEPT ![thr[w].a] =
                   vec3_add(@, CLorTerm(thr[w].a, thr[w].c, thr[w].s))]
    /\ SLor' = [SLor EXCEPT ![thr[w].a] =
                   vec3_add(@, SLorTerm(thr[w].a, thr[w].c, thr[w].s))]
    /\ IF InsideContact(thr[w].n)
       THEN /\ thr' = [thr EXCEPT ![w] = [@ EXCEPT !.pc = "cont1"]]
            /\ todo' = todo
       ELSE Leave(w)
    /\ UNCHANGED <<inputs, outputs, setup, helix, SDip, CDip, piles, phi, pc,
                   a_main, lock, sec1, sec2, diag, phiSrc, offered>>

\* lines 409-416: enter critical(contact) and add to the cosine pile
ContactC(w) ==
    /\ thr[w].pc = "cont1"
    /\ CriticalFree("contact")
    /\ lock' = [lock EXCEPT !["contact"] = w]
    /\ CCont' = pile_add_element(CCont, ContRank(thr[w].n),
                    CContTerm(thr[w].a, thr[w].c, thr[w].s), TupleOf(w))
    /\ offered' = offered \cup {TupleOf(w)}
    /\ thr' = [thr EXCEPT ![w] = [@ EXCEPT !.pc = "cont2"]]
    /\ UNCHANGED <<inputs, outputs, setup, helix, accumulators, SCont, phi, pc,
                   a_main, todo, sec1, sec2, diag, phiSrc>>

\* lines 417-423: add to the sine pile and leave critical(contact)
ContactS(w) ==
    /\ thr[w].pc = "cont2"
    /\ lock' = [lock EXCEPT !["contact"] = 0]
    /\ SCont' = pile_add_element(SCont, ContRank(thr[w].n),
                    SContTerm(thr[w].a, thr[w].c, thr[w].s), TupleOf(w))
    /\ Leave(w)
    /\ UNCHANGED <<inputs, outputs, setup, helix, accumulators, CCont, phi, pc,
                   a_main, sec1, sec2, diag, phiSrc, offered>>

\* one step of thread w of the team
Worker(w) ==
    \/ ForFirst(w)
    \/ Cutoff(w)
    \/ Cosine(w)
    \/ Sine(w)
    \/ Dipolar(w)
    \/ Lorentz(w)
    \/ ContactC(w)
    \/ ContactS(w)

\* ------------------------------------------------------------------------
\* Lines 436-542: the angle sweep, two sections run by two threads
\* ------------------------------------------------------------------------

\* lines 450 and 526: the angle, in turns
AngleTurns(angn) == Q(angn, in_nangles)

RECURSIVE AtomSum(_, _, _, _)
\* lines 453-466 and 475-488: the sum over the atoms 0..n-1 of
\* stagmom[a] (cos(angle) C[a] - sin(angle) S[a])
AtomSum(C, S, angn, n) ==
    IF n = 0 THEN vec3_zero
    ELSE vec3_add(AtomSum(C, S, angn, n - 1),
                  vec3_muls(stagmom[n - 1],
                            vec3_sub(vec3_muls(CosTurns(AngleTurns(angn)), C[n - 1]),
                                     vec3_muls(SinTurns(AngleTurns(angn)), S[n - 1]))))

\* lines 453-468
BDipOf(angn) == vec3_muls(DipConstant, AtomSum(CDip, SDip, angn, in_natoms))

\* lines 475-490
BLorOf(angn) ==
    vec3_muls(LorConstant,
              vec3_muls(RDiv(RInt(3), RMul(FourPi, RPow(radius, 3))),
                        AtomSum(CLor, SLor, angn, in_natoms)))

\* line 506
PileEntryUsable(x) ==
    /\ RGeq(CCont.ranks[x], RZero)
    /\ RLess(RAbs(RSub(CCont.ranks[x], SCont.ranks[x])), EPS)

\* line 516: the message names the two ranks
OddMessage(x) == [kind |-> "odd", ranks1 |-> CCont.ranks[x], ranks2 |-> SCont.ranks[x]]

\* lines 529-534
BContOf(angn, CB, SB, weights) ==
    vec3_muls(RMul(RInv(weights), ContConstant),
              vec3_sub(vec3_muls(CosTurns(AngleTurns(angn)), CB),
                       vec3_muls(SinTurns(AngleTurns(angn)), SB)))

\* lines 434-447 and 503: every thread has left the loop; the sections start
\* with their copies of CBCont, SBCont, NofM and SumOfWeights
\* a team that is let through at once
NoBarrier == TRUE

\* line 434: the end of the parallel region, which no thread passes before
\* every thread has run out of iterations
ImplicitBarrier == \A w \in Threads : thr[w].pc = "wait"

SweepBegin ==
    /\ pc = "reduce"
    /\ ImplicitBarrier
    /\ pc' = "sweep"
    /\ sec1' = [pc |-> "angles", angn |-> 0]
    /\ sec2' = [pc |-> "piles", i |-> 0, angn |-> 0, CBCont |-> vec3_zero,
                SBCont |-> vec3_zero, NofM |-> 0, SumOfWeights |-> RZero,
                BCont |-> vec3_zero]
    /\ UNCHANGED <<inputs, outputs, setup, helix, accumulators, piles, phi,
                   a_main, todo, thr, lock, diag, phiSrc, offered>>

\* lines 448-495: one angle of the dipolar and Lorentz fields, and the loop
\* test that follows it; the two atom loops count with the function's own a
\* (line 100; the clause of line 443 does not list it) and leave it at
\* in_natoms
DipLorAngle ==
    /\ pc = "sweep"
    /\ sec1.pc = "angles"
    /\ out_field_dip' = [out_field_dip EXCEPT ![sec1.angn] = BDipOf(sec1.angn)]
    /\ out_field_lor' = [out_field_lor EXCEPT ![sec1.angn] = BLorOf(sec1.angn)]
    /\ sec1' = IF sec1.angn + 1 < in_nangles
               THEN [sec1 EXCEPT !.angn = @ + 1]
               ELSE [sec1 EXCEPT !.angn = @ + 1, !.pc = "done"]
    /\ a_main' = in_natoms
    /\ UNCHANGED <<inputs, out_field_cont, setup, helix, accumulators, piles,
                   phi, pc, todo, thr, lock, sec2, diag, phiSrc, offered>>

\* lines 505-518: one index of the two piles, and the loop test that follows
ContactPile ==
    /\ pc = "sweep"
    /\ sec2.pc = "piles"
    /\ LET after == IF sec2.i + 1 < nnn_for_cont THEN "piles" ELSE "angles"
       IN  IF PileEntryUsable(sec2.i)
           THEN /\ sec2' = [sec2 EXCEPT
                       !.CBCont = vec3_add(@, vec3_muls(RInv(CCont.ranks[sec2.i]),
                                                        CCont.elements[sec2.i])),
                       !.SBCont = vec3_add(@, vec3_muls(RInv(SCont.ranks[sec2.i]),
                                                        SCont.elements[sec2.i])),
                       !.SumOfWeights = RAdd(@, RInv(CCont.ranks[sec2.i])),
                       !.NofM = @ + 1,
                       !.i = @ + 1,
                       !.pc = after]
                /\ diag' = diag
           ELSE /\ sec2' = [sec2 EXCEPT !.i = @ + 1, !.pc = after]
                /\ diag' = Append(diag, OddMessage(sec2.i))
    /\ UNCHANGED <<inputs, outputs, setup, helix, accumulators, piles, phi, pc,
                   a_main, todo, thr, lock, sec1, phiSrc, offered>>

\* the contact field stored in the array of the dipolar field
ContactIntoDip ==
    /\ pc = "sweep"
    /\ sec2.pc = "angles"
    /\ out_field_dip' = [out_field_dip EXCEPT ![sec2.angn] = sec2.BCont]
    /\ sec2' = IF sec2.angn + 1 < in_nangles
               THEN [sec2 EXCEPT !.angn = @ + 1]
               ELSE [sec2 EXCEPT !.angn = @ + 1, !.pc = "done"]
    /\ UNCHANGED <<inputs, out_field_cont, out_field_lor, setup, helix,
                   accumulators, piles, phi, pc, a_main, todo, thr, lock, sec1,
                   diag, phiSrc, offered>>

\* lines 524-540: one angle of the contact field, and the loop test that
\* follows it
ContactAngle ==
    /\ pc = "sweep"
    /\ sec2.pc = "angles"
    /\ LET B == IF sec2.NofM > 0
                THEN BContOf(sec2.angn, sec2.CBCont, sec2.SBCont, sec2.SumOfWeights)
                ELSE sec2.BCont
       IN  /\ out_field_cont' = [out_field_cont EXCEPT ![sec2.angn] = B]
           /\ sec2' = IF sec2.angn + 1 < in_nangles
                      THEN [sec2 EXCEPT !.BCont = B, !.angn = @ + 1]
                      ELSE [sec2 EXCEPT !.BCont = B, !.angn = @ + 1, !.pc = "done"]
    /\ UNCHANGED <<inputs, out_field_dip, out_field_lor, setup, helix,
                   accumulators, piles, phi, pc, a_main, todo, thr, lock, sec1,
                   diag, phiSrc, offered>>

\* lines 542-555: both sections are over; the function returns
Return ==
    /\ pc = "sweep"
    /\ sec1.pc = "done"
    /\ sec2.pc = "done"
    /\ pc' = "done"
    /\ UNCHANGED <<inputs, outputs, setup, helix, accumulators, piles, phi,
                   a_main, todo, thr, lock, sec1, sec2, diag, phiSrc, offered>>

Next ==
    \/ HelixStep
    \/ ParallelBegin
    \/ \E w \in Threads : Worker(w)
    \/ SweepBegin
    \/ DipLorAngle
    \/ ContactPile
    \/ ContactAngle
    \/ Return

Spec == Init /\ [][Next]_vars

\* ------------------------------------------------------------------------
\* The pile alone: the same entries go to CCont and to SCont, each in an
\* order of its own (lines 411 and 417 are the only callers of
\* pile_add_element)
\* ------------------------------------------------------------------------

PileEntries(n, f) == {[id |-> x, rank |-> RInt(f[x])] : x \in 1..n}

PileValue(e) == <<RInt(e.id), RZero, RZero>>

PileInit ==
    \E nnn \in 1..MaxK, n \in 0..MaxInserts :
        \E f \in [1..n -> 0..MaxRank] :
            /\ InitWith(<<AtomX>>, 1, V3(0, 0, 0), ROne, ROne, nnn, 4)
            /\ calls = [c |-> PileEntries(n, f), s |-> PileEntries(n, f),
                        all |-> PileEntries(n, f)]

\* line 411, alone
PileInsertC(e) ==
    /\ e \in calls.c
    /\ CCont' = pile_add_element(CCont, e.rank, PileValue(e), <<e.id>>)
    /\ calls' = [calls EXCEPT !.c = @ \ {e}]
    /\ UNCHANGED <<in_positions, in_fc, in_K, in_phi, in_muonpos, in_supercell,
                   in_cell, radius, nnn_for_cont, cont_radius, in_natoms,
                   in_nangles, outputs, setup, helix, accumulators, SCont, phi,
                   pc, a_main, todo, thr, lock, sec1, sec2, diag, phiSrc, offered>>

\* line 417, alone
PileInsertS(e) ==
    /\ e \in calls.s
    /\ SCont' = pile_add_element(SCont, e.rank, PileValue(e), <<e.id>>)
    /\ calls' = [calls EXCEPT !.s = @ \ {e}]
    /\ UNCHANGED <<in_positions, in_fc, in_K, in_phi, in_muonpos, in_supercell,
                   in_cell, radius, nnn_for_cont, cont_radius, in_natoms,
                   in_nangles, outputs, setup, helix, accumulators, CCont, phi,
                   pc, a_main, todo, thr, lock, sec1, sec2, diag, phiSrc, offered>>

NextPile ==
    \/ \E e \in calls.all : PileInsertC(e)
    \/ \E e \in calls.all : PileInsertS(e)

SpecPile == PileInit /\ [][NextPile]_vars

\* ------------------------------------------------------------------------
\* Properties of the lattice reduction
\* ------------------------------------------------------------------------

\* every thread of the team has left the collapsed loop
ReductionOver == pc \in {"reduce", "sweep", "done"} /\ \A w \in Threads : thr[w].pc = "wait"

\* the tuples of atom x that pass the cutoff test
TuplesInside(x) == {t \in Tuples : t[4] = x /\ RLess(Dist(t), radius)}

\* what tuple t owes to an accumulator, from the phase of its own atom
TermOf(kind, t) ==
    LET c == CosTurns(Phase(CrysVec(t), in_phi[t[4]]))
        s == SinTurns(Phase(CrysVec(t), in_phi[t[4]]))
    IN  CASE kind = "CDip" -> CDipTerm(t[4], c, s, UnitVec(t), OneByRCube(t))
          [] kind = "SDip" -> SDipTerm(t[4], c, s, UnitVec(t), OneByRCube(t))
          [] kind = "CLor" -> CLorTerm(t[4], c, s)
          [] kind = "SLor" -> SLorTerm(t[4], c, s)

RECURSIVE SumOfTerms(_, _)
SumOfTerms(kind, ts) ==
    IF ts = {} THEN vec3_zero
    ELSE LET t == CHOOSE t \in ts : TRUE
         IN  vec3_add(TermOf(kind, t), SumOfTerms(kind, ts \ {t}))

\* C1: when the reduction is over, each of CDip[a], SDip[a], CLor[a] and
\* SLor[a] is the sum of the contributions of the tuples of atom a whose
\* distance is below radius, each counted once.  The program breaks it: c
\* and s are computed from the shared phi (C4), so a contribution can carry
\* the phase of another atom.
C1_ExactSums ==
    ReductionOver =>
        \A x \in Atoms :
            /\ CDip[x] = SumOfTerms("CDip", TuplesInside(x))
            /\ SDip[x] = SumOfTerms("SDip", TuplesInside(x))
            /\ CLor[x] = SumOfTerms("CLor", TuplesInside(x))
            /\ SLor[x] = SumOfTerms("SLor", TuplesInside(x))

\* C2: whenever no thread is between its two insertions (lines 411-417),
\* the two piles are index-aligned: at every index the ranks are equal and
\* the two entries come from the same tuple, or both are absent.
C2_PilesAligned ==
    (\A w \in Threads : thr[w].pc # "cont2") =>
        \A x \in 0..(nnn_for_cont - 1) :
            /\ CCont.ranks[x] = SCont.ranks[x]
            /\ CCont.srcs[x] = SCont.srcs[x]

\* two candidates of equal rank from two iterations of the collapsed loop
\* are held, and nobody is inside the contact section
C2_TiedPairHeld ==
    /\ pc = "reduce"
    /\ nnn_for_cont = 2
    /\ \A w \in Threads : thr[w].pc # "cont2"
    /\ CCont.srcs[0] # NoSrc
    /\ CCont.srcs[1] # NoSrc
    /\ CCont.ranks[0] = CCont.ranks[1]
    /\ CCont.srcs[0][1] # CCont.srcs[1][1]

\* C4: a thread computes c and s of its tuple from the phi that its own
\* processing of that tuple stored.  The program breaks it: phi is one
\* variable for the whole team, and another thread can store the phase of
\* its own atom between the store of line 325 and the reads of lines 335-336.
C4_OwnPhiRead ==
    \A w \in Threads :
        /\ thr[w].cSrc # Undef => thr[w].cSrc = TupleOf(w)
        /\ thr[w].sSrc # Undef => thr[w].sSrc = TupleOf(w)

\* the step ends thread w's processing of its tuple
TupleOver(w) ==
    /\ thr'[w] # thr[w]
    /\ thr[w].pc \in {"tuple", "lor", "cont2"}
    /\ thr'[w].pc \in {"tuple", "wait"}

\* C9: a step that processes a tuple with n >= radius changes no
\* accumulator and no pile; when the processing of a tuple ends, the tuple
\* has been inserted into the piles if and only if n < radius and
\* n < cont_radius; and the piles hold nothing but inserted tuples.
C9_CutoffFrame ==
    [][/\ \A w \in Threads :
            (thr[w].pc = "tuple" /\ thr'[w] # thr[w] /\ RGeq(Dist(TupleOf(w)), radius))
                => (accumulators' = accumulators /\ piles' = piles)
       /\ \A w \in Threads :
            TupleOver(w) =>
                (TupleOf(w) \in offered' <=>
                    (RLess(Dist(TupleOf(w)), radius) /\ RLess(Dist(TupleOf(w)), cont_radius)))
       /\ \A x \in DOMAIN CCont'.srcs : CCont'.srcs[x] \in offered' \cup {NoSrc}
       /\ \A x \in DOMAIN SCont'.srcs : SCont'.srcs[x] \in offered' \cup {NoSrc}]_vars

\* the reduction is over; one image was inserted, another with
\* radius <= n < cont_radius was not
C9_OutsideSphereSkipped ==
    /\ ReductionOver
    /\ offered # {}
    /\ \E t \in Tuples :
           /\ RGeq(Dist(t), radius)
           /\ RLess(Dist(t), cont_radius)
           /\ t \notin offered

\* ------------------------------------------------------------------------
\* Properties of the pile
\* ------------------------------------------------------------------------

\* the indices of pile p that hold an entry
Present(p) == {x \in DOMAIN p.ranks : RGeq(p.ranks[x], RZero)}

\* the ranks pile p holds, in the order of its indices
RetainedRanks(p) == [x \in 1..Cardinality(Present(p)) |-> p.ranks[x - 1]]

\* the entries pile p holds, by the call they came with
RetainedCalls(p) == {p.srcs[x] : x \in Present(p)}

RECURSIVE SmallestRanks(_, _)
\* the k smallest ranks among the entries es, ascending
SmallestRanks(es, k) ==
    IF k = 0 \/ es = {} THEN <<>>
    ELSE LET e == CHOOSE e \in es : \A o \in es : ~RLess(o.rank, e.rank)
         IN  <<e.rank>> \o SmallestRanks(es \ {e}, k - 1)

\* C3: after any sequence of insert calls a pile of capacity K holds no
\* more than K entries, at its first indices and in ascending rank order,
\* and their ranks are the min(K, number of calls) smallest ranks seen,
\* whatever the order of the calls.
C3_SmallestRanksKept ==
    /\ \A p \in {CCont, SCont} :
           /\ Cardinality(Present(p)) <= nnn_for_cont
           /\ Present(p) = 0..(Cardinality(Present(p)) - 1)
           /\ \A x, y \in Present(p) : x < y => ~RLess(p.ranks[y], p.ranks[x])
    /\ RetainedRanks(CCont) = SmallestRanks(calls.all \ calls.c, nnn_for_cont)
    /\ RetainedRanks(SCont) = SmallestRanks(calls.all \ calls.s, nnn_for_cont)

\* more calls than the capacity were made, in two orders that left the two
\* piles with different entries
C3_MoreCallsThanRoom ==
    /\ calls.c = {}
    /\ calls.s = {}
    /\ Cardinality(calls.all) > nnn_for_cont
    /\ Cardinality(Present(CCont)) = nnn_for_cont
    /\ CCont.srcs # SCont.srcs

\* C3 as it is stated: the entries kept are the same for every order of
\* the calls.  Two calls of equal rank at the capacity's edge break it: the
\* one made first is kept.
C3_SameEntriesKept ==
    (calls.c = {} /\ calls.s = {}) => RetainedCalls(CCont) = RetainedCalls(SCont)

\* ------------------------------------------------------------------------
\* Properties of the whole call
\* ------------------------------------------------------------------------

Angles == 0..(in_nangles - 1)

\* C5: if radius is below the distance from the muon to every atom image,
\* the three outputs are exactly zero at every angle when the function
\* returns.  The program breaks it at radius = 0, which it does not refuse
\* (C6): 3/(4 pi radius^3) is infinite and its product with the zero sum is
\* not a number.
C5_ZeroBaseline ==
    (pc = "done" /\ Tuples # {} /\ \A t \in Tuples : RLess(radius, Dist(t))) =>
        \A angn \in Angles :
            /\ out_field_dip[angn] = vec3_zero
            /\ out_field_lor[angn] = vec3_zero
            /\ out_field_cont[angn] = vec3_zero

\* the preconditions C6 names
PreconditionBroken ==
    \/ scx <= 0 \/ scy <= 0 \/ scz <= 0
    \/ ~RGreater(radius, RZero)
    \/ \E t \in Tuples : Dist(t) = RZero

\* C6: when a precondition is broken no field value is ever written to the
\* output arrays.  The program breaks it: it tests none of the three and
\* runs to its end.
C6_NothingWritten ==
    PreconditionBroken =>
        \A angn \in Angles :
            /\ out_field_dip[angn] = Undef
            /\ out_field_lor[angn] = Undef
            /\ out_field_cont[angn] = Undef

\* C7: every diagnostic of the helix decomposition names the atom and the
\* magnitude of the violation.  The program breaks it: the message of line
\* 268 names the atom alone.
C7_AtomAndMagnitude ==
    \A x \in 1..Len(diag) :
        diag[x].kind \in {"staggered", "orthogonal"} =>
            {"atom", "by"} \subseteq DOMAIN diag[x]

RECURSIVE PileSum(_, _)
\* the sum of the first k values of a pile
PileSum(elements, k) ==
    IF k = 0 THEN vec3_zero ELSE vec3_add(PileSum(elements, k - 1), elements[k - 1])

\* contact_constant (cos(angle) mean(C) - sin(angle) mean(S)) over the
\* nnn_for_cont values of each pile
MeanContact(angn) ==
    vec3_muls(ContConstant,
              vec3_sub(vec3_muls(CosTurns(AngleTurns(angn)),
                                 vec3_muls(Q(1, nnn_for_cont),
                                           PileSum(CCont.elements, nnn_for_cont))),
                       vec3_muls(SinTurns(AngleTurns(angn)),
                                 vec3_muls(Q(1, nnn_for_cont),
                                           PileSum(SCont.elements, nnn_for_cont)))))

\* exactly nnn_for_cont images were contact candidates, all of one rank
SameRankCandidates ==
    /\ Cardinality(offered) = nnn_for_cont
    /\ \A x \in 0..(nnn_for_cont - 1) :
           RGeq(CCont.ranks[x], RZero) /\ CCont.ranks[x] = CCont.ranks[0]

\* C8: if exactly nnn_for_cont images are contact candidates and all have
\* the same rank, the contact output at every angle is the unweighted mean
\* of their contributions times the contact constant.  The program breaks
\* it at rank 0, the muon on an atom image, which it does not refuse (C6):
\* the weight 1/rank is infinite.
C8_UnweightedMean ==
    (pc = "done" /\ SameRankCandidates) =>
        \A angn \in Angles : out_field_cont[angn] = MeanContact(angn)

\* C10: the contact pass reports the fault only for an index whose two
\* ranks disagree.  The program breaks it: an index that holds the sentinel
\* in both piles fails the test of line 506 and is reported too.
C10_FaultOnlyOnDisagreement ==
    \A x \in 1..Len(diag) :
        diag[x].kind = "odd" => diag[x].ranks1 # diag[x].ranks2

\* the angle sweep is running or over
SweepStarted == pc \in {"sweep", "done"}

\* no worker has taken an iteration of the lattice loop yet
NoWorkerStarted ==
    \/ pc = "helix"
    \/ /\ pc = "reduce"
       /\ todo = Iterations
       /\ \A w \in Threads : thr[w].pc = "for"

\* C11: the four accumulators are zero until the first worker takes an
\* iteration; while the angle sweep runs or is over, every worker has left
\* the lattice loop and no iteration is left; and no step taken once the
\* sweep has started changes an accumulator or a pile.
C11_BarrierOrder ==
    /\ [](NoWorkerStarted =>
             \A x \in Atoms :
                 /\ CDip[x] = vec3_zero /\ SDip[x] = vec3_zero
                 /\ CLor[x] = vec3_zero /\ SLor[x] = vec3_zero)
    /\ [](SweepStarted =>
             /\ todo = {}
             /\ \A w \in Threads : thr[w].pc = "wait")
    /\ [][SweepStarted =>
             /\ <<CDip, SDip, CLor, SLor>>' = <<CDip, SDip, CLor, SLor>>
             /\ <<CCont, SCont>>' = <<CCont, SCont>>]_vars

\* the sweep has read accumulators that the workers filled: an angle of
\* the dipolar field is out, the sum is not zero and a pile holds an entry
C11_SweepAfterWork ==
    /\ pc = "sweep"
    /\ sec1.angn > 0
    /\ sec2.i > 0
    /\ \E x \in Atoms : CDip[x] # vec3_zero
    /\ Present(CCont) # {}

\* a step of the first section, of the second section
Section1Step == pc = "sweep" /\ sec1' # sec1

Section2Step == pc = "sweep" /\ sec2' # sec2

\* C12: a step of the dipolar and Lorentz section changes, outside its own
\* locals and atom counter, only out_field_dip and out_field_lor; a step of
\* the contact section changes, outside its own locals and its messages,
\* only out_field_cont; neither changes what the other reads (accumulators,
\* piles, derived atom data, inputs, the other's locals); and when both are
\* over every angle of each of the three arrays holds its three components.
C12_SectionsDisjoint ==
    /\ [][Section1Step =>
             UNCHANGED <<inputs, setup, helix, accumulators, piles,
                         out_field_cont, sec2, diag>>]_vars
    /\ [][Section2Step =>
             UNCHANGED <<inputs, setup, helix, accumulators, piles,
                         out_field_dip, out_field_lor, sec1, a_main>>]_vars
    /\ []((SweepStarted /\ sec1.pc = "done" /\ sec2.pc = "done") =>
             \A angn \in Angles :
                 /\ out_field_dip[angn] # Undef /\ Len(out_field_dip[angn]) = 3
                 /\ out_field_lor[angn] # Undef /\ Len(out_field_lor[angn]) = 3
                 /\ out_field_cont[angn] # Undef /\ Len(out_field_cont[angn]) = 3)

\* both sections are half way through their angles, each with angles of
\* its own arrays written and others still to write
C12_BothSectionsMidway ==
    /\ pc = "sweep"
    /\ sec1.pc = "angles" /\ sec1.angn > 0
    /\ sec2.pc = "angles" /\ sec2.angn > 0
    /\ out_field_dip[0] # Undef /\ out_field_lor[0] # Undef
    /\ out_field_cont[0] # Undef
    /\ out_field_dip[in_nangles - 1] = Undef
    /\ out_field_cont[in_nangles - 1] = Undef

\* the place of tuple t in the order of the loops of lines 299-303
LoopIndex(t) == ((t[1] * scy + t[2]) * scz + t[3]) * in_natoms + t[4]

\* the tuples that pass the tests of lines 322 and 408
Candidates ==
    {t \in Tuples : RLess(Dist(t), radius) /\ RLess(Dist(t), cont_radius)}

\* what tuple t offers to a pile, from the phase of its own atom
ContactTermOf(kind, t) ==
    LET c == CosTurns(Phase(CrysVec(t), in_phi[t[4]]))
        s == SinTurns(Phase(CrysVec(t), in_phi[t[4]]))
    IN  IF kind = "CCont" THEN CContTerm(t[4], c, s) ELSE SContTerm(t[4], c, s)

\* the pile the calls of lines 411 and 417 build when the tuples ts are
\* taken in the order of the loops, as one thread alone takes them
RECURSIVE LoopOrderPile(_, _)
LoopOrderPile(kind, ts) ==
    IF ts = {} THEN pile_init(nnn_for_cont)
    ELSE LET last == CHOOSE t \in ts : \A o \in ts : LoopIndex(o) <= LoopIndex(t)
         IN  pile_add_element(LoopOrderPile(kind, ts \ {last}),
                              ContRank(Dist(last)), ContactTermOf(kind, last), last)

\* C13: when the reduction is over the two piles hold what they hold when
\* the tuples are taken in loop order, whatever the interleaving of the
\* workers was (one outcome per input).  The program breaks it: of two
\* candidates of equal rank at the last free index the pile keeps the one
\* inserted first, and which one that is depends on the schedule; and the
\* element inserted is computed from the shared phi (C4).
C13_OneOutcome ==
    ReductionOver =>
        /\ CCont = LoopOrderPile("CCont", Candidates)
        /\ SCont = LoopOrderPile("SCont", Candidates)

=============================================================================
